---- MODULE Spec2Model ----
(***************************************************************************)
(* RAFOO: an interpreter for a small class-based language in which every   *)
(* variable binding pairs a shared runtime instance with a view class.     *)
(* The model follows src/parser.py (class blocks, base resolution),        *)
(* src/lang_types.py (ClassDef, Instance) and src/interpreter.py (the      *)
(* statement handlers).                                                    *)
(***************************************************************************)
EXTENDS Integers, Sequences, FiniteSets, TLC

VARIABLES prog, classes, pc, ip, env, heap, out, last, err, clonedFrom, report

vars == <<prog, classes, pc, ip, env, heap, out, last, err, clonedFrom, report>>

-----------------------------------------------------------------------------
(* Bounds of the model.                                                    *)

\* statements of a program
MaxStmts == 3

-----------------------------------------------------------------------------
(* lang_types.py                                                           *)

\* Python's None, and the text "None" the parser turns into it
None == "None"

Range(s) == {s[i] : i \in 1..Len(s)}

\* the integer literals the model's programs and statements are written with
IntLit == ("0" :> 0) @@ ("1" :> 1) @@ ("7" :> 7)

\* _INT_RE.match(tok)
is_int(tok) == tok \in DOMAIN IntLit

\* int(tok), for a token accepted by is_int
int(tok) == IntLit[tok]

\* the ClassDef of a declared name: self.classes[name]
ClassOf(tbl, name) == tbl[CHOOSE i \in 1..Len(tbl) : tbl[i].name = name]

\* name in self.classes
Declared(tbl) == {tbl[i].name : i \in 1..Len(tbl)}

\* faulty all_fields: the own fields before the base's
RECURSIVE all_fields_own_first(_, _)
all_fields_own_first(tbl, c) ==
    IF ClassOf(tbl, c).base = None
    THEN ClassOf(tbl, c).fields
    ELSE ClassOf(tbl, c).fields \o all_fields_own_first(tbl, ClassOf(tbl, c).base)

\* ClassDef.all_fields: the base's all_fields, then the own fields
RECURSIVE all_fields(_, _)
all_fields(tbl, c) ==
    IF ClassOf(tbl, c).base = None
    THEN ClassOf(tbl, c).fields
    ELSE all_fields(tbl, ClassOf(tbl, c).base) \o ClassOf(tbl, c).fields

\* ClassDef.is_subclass_of: walk c, c.base, ... until other or None
RECURSIVE is_subclass_of(_, _, _)
is_subclass_of(tbl, c, other) ==
    IF c = None THEN FALSE
    ELSE IF c = other THEN TRUE
    ELSE is_subclass_of(tbl, ClassOf(tbl, c).base, other)

\* name in c.methods
HasMethod(cd, m) == \E i \in 1..Len(cd.methods) : cd.methods[i].mname = m

\* c.methods[name]
MethodOf(cd, m) ==
    cd.methods[CHOOSE i \in 1..Len(cd.methods) : cd.methods[i].mname = m].tokens

\* faulty lookup: the declaration nearest to the root wins
RECURSIVE lookup_method_root_first(_, _, _)
lookup_method_root_first(tbl, c, m) ==
    IF c = None THEN <<FALSE, <<>>>>
    ELSE IF lookup_method_root_first(tbl, ClassOf(tbl, c).base, m)[1]
         THEN lookup_method_root_first(tbl, ClassOf(tbl, c).base, m)
    ELSE IF HasMethod(ClassOf(tbl, c), m) THEN <<TRUE, MethodOf(ClassOf(tbl, c), m)>>
    ELSE <<FALSE, <<>>>>

\* ClassDef.lookup_method: the first class on the chain that has the method;
\* <<FALSE, <<>>>> stands for None
RECURSIVE lookup_method(_, _, _)
lookup_method(tbl, c, m) ==
    IF c = None THEN <<FALSE, <<>>>>
    ELSE IF HasMethod(ClassOf(tbl, c), m) THEN <<TRUE, MethodOf(ClassOf(tbl, c), m)>>
    ELSE lookup_method(tbl, ClassOf(tbl, c).base, m)

-----------------------------------------------------------------------------
(* Program texts: the CLASS blocks of a source file, in file order.        *)

Block(n, b, f, m) == [name |-> n, base_name |-> b, fields |-> f, methods |-> m]

Meth(n, t) == [mname |-> n, tokens |-> t]

\* a three-level chain declared leaf first, with a sibling branch; B overrides
\* m, and k of A reads a field that only B and E instances hold
ProgShapes ==
    << Block("E", "B", <<"e">>, <<>>),
       Block("B", "A", <<"b">>, << Meth("m", <<"b">>), Meth("n", <<"b", "a">>) >>),
       Block("A", None, <<"a">>, << Meth("m", <<"a">>), Meth("k", <<"7", "b">>) >>),
       Block("C", "A", <<>>, <<>>) >>

\* B names a base that is declared nowhere
ProgUnknownBase ==
    << Block("A", None, <<"a">>, <<>>),
       Block("B", "Q", <<"b">>, <<>>) >>

\* E redeclares a field of its indirect ancestor A
ProgDupField ==
    << Block("A", None, <<"a">>, <<>>),
       Block("B", "A", <<"b">>, <<>>),
       Block("E", "B", <<"a">>, <<>>) >>

\* the class name A is declared twice
ProgDupName ==
    << Block("A", None, <<"a">>, <<>>),
       Block("A", None, <<"b">>, <<>>) >>

\* the class name A is declared again after another block
ProgDupNameLate ==
    << Block("A", None, <<"a">>, <<>>),
       Block("B", "A", <<"b">>, <<>>),
       Block("A", None, <<>>, <<>>) >>

\* C names an undeclared base, and B redeclares a field of A
ProgUnknownAndDup ==
    << Block("A", None, <<"a">>, <<>>),
       Block("B", "A", <<"a">>, <<>>),
       Block("C", "Q", <<>>, <<>>) >>

\* A is its own base and holds no field
ProgSelfBase ==
    << Block("A", "A", <<>>, <<>>),
       Block("B", None, <<"b">>, <<>>) >>

\* A and B are each other's base; C is a root beside them
ProgCycle ==
    << Block("A", "B", <<"a">>, <<>>),
       Block("B", "A", <<"b">>, <<>>),
       Block("C", None, <<"c">>, <<>>) >>

\* the same blocks in every file order
Orders(p) ==
    {[i \in 1..Len(p) |-> p[f[i]]] :
        f \in {g \in [1..Len(p) -> 1..Len(p)] : \A i, j \in 1..Len(p) : g[i] = g[j] => i = j}}

Programs ==
    {ProgShapes, ProgDupName, ProgDupNameLate}
        \cup Orders(ProgUnknownBase) \cup Orders(ProgDupField)
        \cup Orders(ProgUnknownAndDup) \cup Orders(ProgSelfBase) \cup Orders(ProgCycle)

-----------------------------------------------------------------------------
(* parser.py                                                               *)

\* ClassDef(name, base_name, fields, methods) with base still None
NewClassDef(b) ==
    [name |-> b.name, base_name |-> b.base_name, fields |-> b.fields,
     methods |-> b.methods, base |-> None]

\* faulty first pass: a base must be declared before the class that names it
FirstUnknownBase_declared_earlier(tbl) ==
    LET bad == {i \in 1..Len(tbl) :
                   /\ tbl[i].base_name # None
                   /\ tbl[i].base_name \notin {tbl[j].name : j \in 1..(i - 1)}}
    IN  IF bad = {} THEN 0 ELSE CHOOSE i \in bad : \A j \in bad : i <= j

\* first pass of _resolve_bases_and_check_fields: the first class, in table
\* order, whose base_name is not a key of the table (0 when there is none)
FirstUnknownBase(tbl) ==
    LET bad == {i \in 1..Len(tbl) :
                   tbl[i].base_name # None /\ tbl[i].base_name \notin Declared(tbl)}
    IN  IF bad = {} THEN 0 ELSE CHOOSE i \in bad : \A j \in bad : i <= j

\* cls.base = self.classes[cls.base_name] for every class
LinkBases(tbl) ==
    [i \in 1..Len(tbl) |-> [tbl[i] EXCEPT !.base = tbl[i].base_name]]

\* second pass: some own field of class i is in set(cls.base.all_fields())
RedefinesField(tbl, i) ==
    /\ tbl[i].base # None
    /\ Range(tbl[i].fields) \cap Range(all_fields(tbl, tbl[i].base)) # {}

\* all_fields on class c ends: the base chain from c reaches None within
\* fuel steps
RECURSIVE chain_ends(_, _, _)
chain_ends(tbl, c, fuel) ==
    IF c = None THEN TRUE
    ELSE IF fuel = 0 THEN FALSE
    ELSE chain_ends(tbl, ClassOf(tbl, c).base, fuel - 1)

\* faulty second pass: a class that introduces no field is not validated
second_pass_error_skip_fieldless(tbl) ==
    LET bad == {i \in 1..Len(tbl) :
                   /\ tbl[i].base # None
                   /\ tbl[i].fields # <<>>
                   /\ \/ ~chain_ends(tbl, tbl[i].base, Len(tbl))
                      \/ RedefinesField(tbl, i)}
        first == CHOOSE i \in bad : \A j \in bad : i <= j
    IN  IF bad = {} THEN "none"
        ELSE IF ~chain_ends(tbl, tbl[first].base, Len(tbl)) THEN "RecursionError"
        ELSE "DuplicateField"

\* second pass of _resolve_bases_and_check_fields over the linked table: the
\* first class, in table order, that has a base and either sends
\* cls.base.all_fields() round a base cycle (Python ends the recursion with
\* RecursionError) or redeclares an inherited field
second_pass_error(tbl) ==
    LET bad == {i \in 1..Len(tbl) :
                   /\ tbl[i].base # None
                   /\ \/ ~chain_ends(tbl, tbl[i].base, Len(tbl))
                      \/ RedefinesField(tbl, i)}
        first == CHOOSE i \in bad : \A j \in bad : i <= j
    IN  IF bad = {} THEN "none"
        ELSE IF ~chain_ends(tbl, tbl[first].base, Len(tbl)) THEN "RecursionError"
        ELSE "DuplicateField"

\* nothing is printed by print_classes and print_instances yet
NoReport == [classes |-> <<>>, instances |-> <<>>]

NoStmt ==
    [kind |-> "-", name |-> "-", src |-> "-", cls |-> "-", member |-> "-",
     args |-> <<>>]

Init ==
    /\ prog \in Programs
    /\ classes = <<>>
    /\ pc = "parse"
    /\ ip = 0
    /\ env = <<>>
    /\ heap = <<>>
    /\ out = <<>>
    /\ last = NoStmt
    /\ err = "none"
    /\ clonedFrom = <<>>
    /\ report = NoReport

\* Parser._parse_class_block: one CLASS block becomes a ClassDef of the table
ParseClassBlock ==
    /\ pc = "parse"
    /\ Len(classes) < Len(prog)
    /\ LET b == prog[Len(classes) + 1] IN
         IF b.name \in Declared(classes)
         THEN /\ pc' = "loadfailed"
              /\ err' = "DuplicateClass"
              /\ UNCHANGED classes
         ELSE /\ classes' = Append(classes, NewClassDef(b))
              /\ UNCHANGED <<pc, err>>
    /\ UNCHANGED <<prog, ip, env, heap, out, last, clonedFrom, report>>

\* Parser._resolve_bases_and_check_fields, run once every block is parsed
ResolveBases ==
    /\ pc = "parse"
    /\ Len(classes) = Len(prog)
    /\ IF FirstUnknownBase(classes) # 0
       THEN /\ pc' = "loadfailed"
            /\ err' = "UnknownBaseClass"
            /\ classes' = [i \in 1..Len(classes) |->
                             IF i < FirstUnknownBase(classes)
                             THEN LinkBases(classes)[i] ELSE classes[i]]
       ELSE /\ classes' = LinkBases(classes)
            /\ IF second_pass_error(LinkBases(classes)) # "none"
               THEN pc' = "loadfailed" /\ err' = second_pass_error(LinkBases(classes))
               ELSE pc' = "run" /\ UNCHANGED err
    /\ UNCHANGED <<prog, ip, env, heap, out, last, clonedFrom, report>>

-----------------------------------------------------------------------------
(* interpreter.py: helpers                                                 *)

\* str(v) of a field value or literal, as print writes it
str == (0 :> "0") @@ (1 :> "1") @@ (7 :> "7")

\* VarBinding(inst, view_cls); inst is the index of the Instance in heap
VarBinding(i, c) == [inst |-> i, view_cls |-> c]

\* Interpreter._get_binding: name in self.env
get_binding(e, name) == name \in DOMAIN e

\* dict(zip(all_fields, args)): pairs up to the shorter list, later pairs win
Zip(names, vals) ==
    LET n == IF Len(names) < Len(vals) THEN Len(names) ELSE Len(vals)
    IN  [f \in {names[i] : i \in 1..n} |->
            vals[CHOOSE i \in 1..n :
                    names[i] = f /\ \A j \in 1..n : names[j] = f => j <= i]]

\* faulty _instantiate: the argument count is not compared, zip truncates
instantiate_error_no_arity(tbl, class_name, args) ==
    IF class_name \notin Declared(tbl) THEN "UnknownClass" ELSE "none"

\* Interpreter._instantiate: the error it raises, if any
instantiate_error(tbl, class_name, args) ==
    IF class_name \notin Declared(tbl) THEN "UnknownClass"
    ELSE IF Len(all_fields(tbl, class_name)) # Len(args) THEN "ArityMismatch"
    ELSE "none"

\* Interpreter._instantiate: Instance(cls, fields) when it raises nothing
instantiate(tbl, class_name, args) ==
    [cls |-> class_name, fields |-> Zip(all_fields(tbl, class_name), args)]

\* faulty _clone: the source Instance itself is returned
clone_same(hp, i) == [heap |-> hp, inst |-> i]

\* Interpreter._clone: a new Instance of the same class with a copied dict;
\* the result is the heap with the new Instance and the Instance's index
clone(hp, i) ==
    [heap |-> Append(hp, [cls |-> hp[i].cls, fields |-> hp[i].fields]),
     inst |-> Len(hp) + 1]

\* faulty cast check: no check at all
cast_allowed_any(tbl, hp, binding, target) == TRUE

\* faulty cast check: the target must be below the runtime class
cast_allowed_down(tbl, hp, binding, target) ==
    is_subclass_of(tbl, target, hp[binding.inst].cls)

\* faulty cast check: the view class of the source is tested
cast_allowed_view(tbl, hp, binding, target) ==
    is_subclass_of(tbl, binding.view_cls, target)

\* Interpreter._cast_binding: binding.inst.cls.is_subclass_of(target_cls)
cast_allowed(tbl, hp, binding, target) ==
    is_subclass_of(tbl, hp[binding.inst].cls, target)

\* Interpreter._cast_binding: the error it raises, if any
cast_error(tbl, hp, binding, target) ==
    IF target \notin Declared(tbl) THEN "UnknownClass"
    ELSE IF ~cast_allowed(tbl, hp, binding, target) THEN "InvalidCast"
    ELSE "none"

\* Interpreter._cast_binding: the same Instance under the target view
cast_binding(binding, target) == VarBinding(binding.inst, target)

\* faulty bare reference: the Instance is copied for the new binding
ref_binding_copy(hp, binding) ==
    [heap |-> Append(hp, hp[binding.inst]),
     binding |-> VarBinding(Len(hp) + 1, binding.view_cls)]

\* the bare reference of _exec_let: same Instance, same view; the result is
\* the heap, to which nothing is added, and the new binding
ref_binding(hp, binding) ==
    [heap |-> hp, binding |-> VarBinding(binding.inst, binding.view_cls)]

\* faulty method search: it starts at the runtime class (dynamic dispatch)
call_class_runtime(hp, binding) == hp[binding.inst].cls

\* the class _exec_call starts the method search at
call_class(hp, binding) == binding.view_cls

\* the token loop of _exec_call: every token is a literal or a field
tokens_ok(fields, tokens) ==
    \A i \in 1..Len(tokens) : is_int(tokens[i]) \/ tokens[i] \in DOMAIN fields

\* the values _exec_call collects, printed as one line of words
call_line(fields, tokens) ==
    [i \in 1..Len(tokens) |->
        IF is_int(tokens[i]) THEN str[int(tokens[i])] ELSE str[fields[tokens[i]]]]

\* faulty type test: the view class is tested
is_verdict_view(tbl, hp, binding, cls) ==
    IF is_subclass_of(tbl, binding.view_cls, cls) THEN "IS" ELSE "ISN'T"

\* the verdict of _exec_is for a bound variable and a declared class
is_verdict(tbl, hp, binding, cls) ==
    IF is_subclass_of(tbl, hp[binding.inst].cls, cls) THEN "IS" ELSE "ISN'T"

-----------------------------------------------------------------------------
(* The statements a program may hold.                                      *)

\* variable names a statement may mention
Vars == {"x", "y", "z"}

\* variable names a let may bind; z stays unknown in every run
LetVars == {"x", "y"}

\* class names a statement may use: the declared ones and an undeclared one
ClassNames == Declared(classes) \cup {"Z"}

MethodNames == {"m", "k", "n"}

\* field names a statement may use: every declared field and an unknown one
FieldNames ==
    UNION {Range(classes[i].fields) : i \in 1..Len(classes)} \cup {"q"}

\* literals a field assignment may use as a value
ValueToks == {"0", "1"}

\* the literals of a constructor call, by position: 0, 1, 0, 1, ...
ArgPattern(k) == [i \in 1..k |-> IF i % 2 = 1 THEN "0" ELSE "1"]

\* the longest field layout of the class table
MaxArity ==
    LET n == IF pc = "run"
             THEN {Len(all_fields(classes, c)) : c \in Declared(classes)} \cup {0}
             ELSE {0}
    IN  CHOOSE k \in n : \A j \in n : j <= k

\* constructor argument lists: one list of literals of every length up to one
\* more than any class takes, and a list that holds a field name
ArgLists == {ArgPattern(k) : k \in 0..(MaxArity + 1)} \cup {<<"a">>}

Stmt(k, n, s, c, m, a) ==
    [kind |-> k, name |-> n, src |-> s, cls |-> c, member |-> m, args |-> a]

\* faulty run: statements are taken up after the loader has raised
Fetch_after_load_error ==
    /\ pc \in {"run", "loadfailed"}
    /\ ip < MaxStmts
    /\ ip' = ip + 1
    /\ UNCHANGED report

\* Interpreter.run: the loop takes the next statement of self.statements
Fetch ==
    /\ pc = "run"
    /\ ip < MaxStmts
    /\ ip' = ip + 1
    /\ UNCHANGED report

\* faulty raise: the effects of the earlier statements are undone
Raise_rollback(e) ==
    /\ pc' = "failed"
    /\ err' = e
    /\ env' = <<>>
    /\ heap' = <<>>
    /\ out' = <<>>
    /\ UNCHANGED clonedFrom

\* a ValueError leaves _exec_statement and run: nothing else is touched
Raise(e) ==
    /\ pc' = "failed"
    /\ err' = e
    /\ UNCHANGED <<env, heap, out, clonedFrom>>

-----------------------------------------------------------------------------
(* interpreter.py: one action per statement form                           *)

\* _exec_statement on a line that is empty once its comment is stripped
ExecEmpty ==
    /\ Fetch
    /\ last' = Stmt("empty", "-", "-", "-", "-", <<>>)
    /\ UNCHANGED <<prog, classes, pc, env, heap, out, err, clonedFrom>>

\* _exec_statement on a line of no known form
ExecUnknown ==
    /\ Fetch
    /\ last' = Stmt("unknown", "-", "-", "-", "-", <<>>)
    /\ Raise("UnknownStatement")
    /\ UNCHANGED <<prog, classes>>

\* faulty let: every variable that shared n's old instance is rebound with n
ExecLetNew_rebinds_aliases(n, c, args) ==
    /\ Fetch
    /\ last' = Stmt("new", n, "-", c, "-", args)
    /\ IF \E i \in 1..Len(args) : ~is_int(args[i])
       THEN Raise("InvalidConstructorArg")
       ELSE LET ints == [i \in 1..Len(args) |-> int(args[i])] IN
            IF instantiate_error(classes, c, ints) # "none"
            THEN Raise(instantiate_error(classes, c, ints))
            ELSE /\ heap' = Append(heap, instantiate(classes, c, ints))
                 /\ env' = [w \in DOMAIN env \cup {n} |->
                               IF w = n \/ (n \in DOMAIN env /\ env[w].inst = env[n].inst)
                               THEN VarBinding(Len(heap) + 1,
                                               instantiate(classes, c, ints).cls)
                               ELSE env[w]]
                 /\ UNCHANGED <<pc, err, out, clonedFrom>>
    /\ UNCHANGED <<prog, classes>>

\* _exec_let: let n = new c(args)
ExecLetNew(n, c, args) ==
    /\ Fetch
    /\ last' = Stmt("new", n, "-", c, "-", args)
    /\ IF \E i \in 1..Len(args) : ~is_int(args[i])
       THEN Raise("InvalidConstructorArg")
       ELSE LET ints == [i \in 1..Len(args) |-> int(args[i])] IN
            IF instantiate_error(classes, c, ints) # "none"
            THEN Raise(instantiate_error(classes, c, ints))
            ELSE /\ heap' = Append(heap, instantiate(classes, c, ints))
                 /\ env' = (n :> VarBinding(Len(heap) + 1,
                                            instantiate(classes, c, ints).cls)) @@ env
                 /\ UNCHANGED <<pc, err, out, clonedFrom>>
    /\ UNCHANGED <<prog, classes>>

\* faulty clone statement: the new binding is viewed as the runtime class
ExecLetClone_runtime_view(n, s) ==
    /\ Fetch
    /\ last' = Stmt("clone", n, s, "-", "-", <<>>)
    /\ IF ~get_binding(env, s)
       THEN Raise("UnknownVariable")
       ELSE LET r == clone(heap, env[s].inst) IN
            /\ heap' = r.heap
            /\ env' = (n :> VarBinding(r.inst, heap[env[s].inst].cls)) @@ env
            /\ clonedFrom' = (r.inst :> env[s].inst) @@ clonedFrom
            /\ UNCHANGED <<pc, err, out>>
    /\ UNCHANGED <<prog, classes>>

\* _exec_let: let n = clone s
ExecLetClone(n, s) ==
    /\ Fetch
    /\ last' = Stmt("clone", n, s, "-", "-", <<>>)
    /\ IF ~get_binding(env, s)
       THEN Raise("UnknownVariable")
       ELSE LET r == clone(heap, env[s].inst) IN
            /\ heap' = r.heap
            /\ env' = (n :> VarBinding(r.inst, env[s].view_cls)) @@ env
            /\ clonedFrom' = (r.inst :> env[s].inst) @@ clonedFrom
            /\ UNCHANGED <<pc, err, out>>
    /\ UNCHANGED <<prog, classes>>

\* _exec_let: let n = cast<c> s
ExecLetCast(n, c, s) ==
    /\ Fetch
    /\ last' = Stmt("cast", n, s, c, "-", <<>>)
    /\ IF ~get_binding(env, s)
       THEN Raise("UnknownVariable")
       ELSE IF cast_error(classes, heap, env[s], c) # "none"
       THEN Raise(cast_error(classes, heap, env[s], c))
       ELSE /\ env' = (n :> cast_binding(env[s], c)) @@ env
            /\ UNCHANGED <<pc, err, heap, out, clonedFrom>>
    /\ UNCHANGED <<prog, classes>>

\* _exec_let: let n = s
ExecLetRef(n, s) ==
    /\ Fetch
    /\ last' = Stmt("ref", n, s, "-", "-", <<>>)
    /\ IF ~get_binding(env, s)
       THEN Raise("UnknownVariable")
       ELSE /\ env' = (n :> ref_binding(heap, env[s]).binding) @@ env
            /\ heap' = ref_binding(heap, env[s]).heap
            /\ UNCHANGED <<pc, err, out, clonedFrom>>
    /\ UNCHANGED <<prog, classes>>

\* faulty assignment: a name the instance lacks is added to its field map
ExecFieldAssign_adds_field(v, f, rhs) ==
    /\ Fetch
    /\ last' = Stmt("assign", v, "-", "-", f, <<rhs>>)
    /\ IF ~is_int(rhs) THEN Raise("InvalidFieldValue")
       ELSE IF ~get_binding(env, v) THEN Raise("UnknownVariable")
       ELSE /\ heap' = [heap EXCEPT ![env[v].inst].fields =
                            (f :> int(rhs)) @@ heap[env[v].inst].fields]
            /\ UNCHANGED <<pc, err, env, out, clonedFrom>>
    /\ UNCHANGED <<prog, classes>>

\* faulty assignment: the field name is looked up in the view class
ExecFieldAssign_by_view(v, f, rhs) ==
    /\ Fetch
    /\ last' = Stmt("assign", v, "-", "-", f, <<rhs>>)
    /\ IF ~is_int(rhs) THEN Raise("InvalidFieldValue")
       ELSE IF ~get_binding(env, v) THEN Raise("UnknownVariable")
       ELSE IF f \notin Range(all_fields(classes, env[v].view_cls)) THEN Raise("UnknownField")
       ELSE /\ heap' = [heap EXCEPT ![env[v].inst].fields[f] = int(rhs)]
            /\ UNCHANGED <<pc, err, env, out, clonedFrom>>
    /\ UNCHANGED <<prog, classes>>

\* _exec_field_assign: v.f = rhs
ExecFieldAssign(v, f, rhs) ==
    /\ Fetch
    /\ last' = Stmt("assign", v, "-", "-", f, <<rhs>>)
    /\ IF ~is_int(rhs) THEN Raise("InvalidFieldValue")
       ELSE IF ~get_binding(env, v) THEN Raise("UnknownVariable")
       ELSE IF f \notin DOMAIN heap[env[v].inst].fields THEN Raise("UnknownField")
       ELSE /\ heap' = [heap EXCEPT ![env[v].inst].fields[f] = int(rhs)]
            /\ UNCHANGED <<pc, err, env, out, clonedFrom>>
    /\ UNCHANGED <<prog, classes>>

\* faulty call: the values collected before the unknown field are printed
ExecCall_partial_line(v, m) ==
    /\ Fetch
    /\ last' = Stmt("call", v, "-", "-", m, <<>>)
    /\ IF ~get_binding(env, v) THEN Raise("UnknownVariable")
       ELSE LET found  == lookup_method(classes, call_class(heap, env[v]), m)
                fields == heap[env[v].inst].fields
                bad    == {i \in 1..Len(found[2]) :
                              ~is_int(found[2][i]) /\ found[2][i] \notin DOMAIN fields}
                first  == CHOOSE i \in bad : \A j \in bad : i <= j
            IN  IF ~found[1] THEN Raise("MethodNotFound")
                ELSE IF ~tokens_ok(fields, found[2])
                THEN /\ pc' = "failed"
                     /\ err' = "UnknownFieldInMethod"
                     /\ out' = Append(out, call_line(fields, SubSeq(found[2], 1, first - 1)))
                     /\ UNCHANGED <<env, heap, clonedFrom>>
                ELSE /\ out' = Append(out, call_line(fields, found[2]))
                     /\ UNCHANGED <<pc, err, env, heap, clonedFrom>>
    /\ UNCHANGED <<prog, classes>>

\* _exec_call: call v.m
ExecCall(v, m) ==
    /\ Fetch
    /\ last' = Stmt("call", v, "-", "-", m, <<>>)
    /\ IF ~get_binding(env, v) THEN Raise("UnknownVariable")
       ELSE LET found  == lookup_method(classes, call_class(heap, env[v]), m)
                fields == heap[env[v].inst].fields
            IN  IF ~found[1] THEN Raise("MethodNotFound")
                ELSE IF ~tokens_ok(fields, found[2]) THEN Raise("UnknownFieldInMethod")
                ELSE /\ out' = Append(out, call_line(fields, found[2]))
                     /\ UNCHANGED <<pc, err, env, heap, clonedFrom>>
    /\ UNCHANGED <<prog, classes>>

\* faulty _exec_is: an unknown variable is looked up with _get_binding
ExecIs_strict(v, c) ==
    /\ Fetch
    /\ last' = Stmt("is", v, "-", c, "-", <<>>)
    /\ IF ~get_binding(env, v)
       THEN Raise("UnknownVariable")
       ELSE /\ IF c \notin Declared(classes)
               THEN out' = Append(out, <<"ISN'T">>)
               ELSE out' = Append(out, <<is_verdict(classes, heap, env[v], c)>>)
            /\ UNCHANGED <<pc, err, env, heap, clonedFrom>>
    /\ UNCHANGED <<prog, classes>>

\* _exec_is: v is c
ExecIs(v, c) ==
    /\ Fetch
    /\ last' = Stmt("is", v, "-", c, "-", <<>>)
    /\ IF v \notin DOMAIN env \/ c \notin Declared(classes)
       THEN out' = Append(out, <<"ISN'T">>)
       ELSE out' = Append(out, <<is_verdict(classes, heap, env[v], c)>>)
    /\ UNCHANGED <<prog, classes, pc, err, env, heap, clonedFrom>>

\* print_classes: base, own fields and methods of every class
class_report(tbl) ==
    [c \in Declared(tbl) |->
        [base |-> ClassOf(tbl, c).base,
         fields |-> ClassOf(tbl, c).fields,
         methods |-> ClassOf(tbl, c).methods]]

\* the methods line of print_instances: view_cls.methods.keys()
listed_methods(tbl, view_cls) ==
    [i \in 1..Len(ClassOf(tbl, view_cls).methods) |->
        ClassOf(tbl, view_cls).methods[i].mname]

\* print_instances: view type, runtime type, runtime base, fields and
\* methods of every variable
instance_report(tbl, e, hp) ==
    [v \in DOMAIN e |->
        [view_type |-> e[v].view_cls,
         runtime_type |-> hp[e[v].inst].cls,
         runtime_base |-> ClassOf(tbl, hp[e[v].inst].cls).base,
         fields |-> hp[e[v].inst].fields,
         methods |-> listed_methods(tbl, e[v].view_cls)]]

\* main, once run has executed the last statement: print_classes and
\* print_instances
PrintReports ==
    /\ pc = "run"
    /\ pc' = "done"
    /\ report' = [classes |-> class_report(classes),
                  instances |-> instance_report(classes, env, heap)]
    /\ UNCHANGED <<prog, classes, ip, env, heap, out, last, err, clonedFrom>>

Next ==
    \/ ParseClassBlock
    \/ ResolveBases
    \/ ExecEmpty
    \/ ExecUnknown
    \/ \E n \in LetVars, c \in ClassNames, args \in ArgLists : ExecLetNew(n, c, args)
    \/ \E n \in LetVars, s \in Vars : ExecLetClone(n, s)
    \/ \E n \in LetVars, c \in ClassNames, s \in Vars : ExecLetCast(n, c, s)
    \/ \E n \in LetVars, s \in Vars : ExecLetRef(n, s)
    \/ \E v \in Vars, f \in FieldNames, rhs \in ValueToks \cup {"a"} :
          ExecFieldAssign(v, f, rhs)
    \/ \E v \in Vars, m \in MethodNames : ExecCall(v, m)
    \/ \E v \in Vars, c \in ClassNames : ExecIs(v, c)
    \/ PrintReports

Spec == Init /\ [][Next]_vars

-----------------------------------------------------------------------------
(* The hierarchy, stated without the chain walks of lang_types.py.         *)

\* the classes of S and their direct bases
WithBases(S) ==
    S \cup {classes[i].base : i \in {j \in 1..Len(classes) : classes[j].name \in S}}

RECURSIVE BaseClosure(_, _)
BaseClosure(S, n) == IF n = 0 THEN S ELSE BaseClosure(WithBases(S), n - 1)

\* c and every class above it
AncestorsOrSelf(c) == BaseClosure({c}, Len(classes)) \ {None}

\* 1 for a root, 2 for a class whose base is a root, ...
Depth(c) == Cardinality(AncestorsOrSelf(c))

\* the fields of the ancestors-or-self of c at depths 1..k, root first
RECURSIVE FieldsToDepth(_, _)
FieldsToDepth(c, k) ==
    IF k = 0 THEN <<>>
    ELSE FieldsToDepth(c, k - 1)
         \o ClassOf(classes, CHOOSE d \in AncestorsOrSelf(c) : Depth(d) = k).fields

RootFirstFields(c) == FieldsToDepth(c, Depth(c))

\* the tokens of m in the class nearest to c, among c and its ancestors
NearestMethod(c, m) ==
    LET has == {d \in AncestorsOrSelf(c) : HasMethod(ClassOf(classes, d), m)}
    IN  MethodOf(ClassOf(classes, CHOOSE d \in has : \A e \in has : Depth(e) <= Depth(d)), m)

RuntimeOf(e, hp, v) == hp[e[v].inst].cls

FieldsOf(e, hp, v) == hp[e[v].inst].fields

\* this step executed a statement of kind k
Ran(k) == ip' = ip + 1 /\ last'.kind = k

\* this step executed a statement of kind k and raised nothing
RanOk(k) == Ran(k) /\ pc' = "run"

-----------------------------------------------------------------------------
(* Claims.                                                                 *)

\* C1: in every state, whatever statements ran, the runtime class of every
\* binding's instance is the binding's view class or a class below it.
C1_ViewIsAncestorOfRuntime ==
    \A v \in DOMAIN env : env[v].view_cls \in AncestorsOrSelf(RuntimeOf(env, heap, v))

\* a binding whose view class is strictly above the runtime class of its instance
C1_Witness ==
    \E v \in DOMAIN env :
        /\ env[v].view_cls # RuntimeOf(env, heap, v)
        /\ env[v].view_cls \in AncestorsOrSelf(RuntimeOf(env, heap, v))

\* C2: a successful call v.m prints the body that the class nearest to the
\* VIEW class of v declares for m, each field token read from the instance's
\* current fields; on an instance of B, m prints field a through view A and
\* field b through view B.
C2_CallResolvesByView ==
    (pc = "run" /\ last.kind = "call") =>
        LET v    == last.name
            f    == FieldsOf(env, heap, v)
            toks == NearestMethod(env[v].view_cls, last.member)
            line == out[Len(out)]
        IN  /\ line = [i \in 1..Len(toks) |->
                          IF toks[i] \in DOMAIN f THEN str[f[toks[i]]] ELSE toks[i]]
            /\ (prog = ProgShapes /\ last.member = "m" /\ RuntimeOf(env, heap, v) = "B") =>
                  /\ env[v].view_cls = "A" => line = <<str[f["a"]]>>
                  /\ env[v].view_cls = "B" => line = <<str[f["b"]]>>

\* m called on an instance of B through view A, with a and b holding
\* different values, so that the two bodies print different lines
C2_Witness ==
    /\ pc = "run" /\ last.kind = "call" /\ last.member = "m"
    /\ env[last.name].view_cls = "A"
    /\ RuntimeOf(env, heap, last.name) = "B"
    /\ FieldsOf(env, heap, last.name)["a"] # FieldsOf(env, heap, last.name)["b"]
    /\ out[Len(out)] = <<str[FieldsOf(env, heap, last.name)["a"]]>>

\* C3: an instance made by clone is another instance than its source, and
\* from then on a field assignment through any variable bound to the one
\* leaves every field of the other as it was.
C3_CloneIndependent ==
    [][ /\ \A c \in DOMAIN clonedFrom' : c # clonedFrom'[c]
        /\ RanOk("assign") =>
              \A c \in DOMAIN clonedFrom :
                  /\ env[last'.name].inst = c =>
                        heap'[clonedFrom[c]].fields = heap[clonedFrom[c]].fields
                  /\ env[last'.name].inst = clonedFrom[c] =>
                        heap'[c].fields = heap[c].fields ]_vars

\* a field assigned through the clone, now differing from the source's field
C3_Witness ==
    /\ pc = "run" /\ last.kind = "assign"
    /\ env[last.name].inst \in DOMAIN clonedFrom
    /\ heap[env[last.name].inst].fields[last.member]
          # heap[clonedFrom[env[last.name].inst]].fields[last.member]

\* C4: a bare reference and a successful cast bind the instance of their
\* source and allocate nothing; a field assignment through a variable is seen
\* in the field map of every variable bound to the same instance, and a call
\* prints the current values of that instance, whatever the view classes are.
C4_AliasesShareInstance ==
    [][ /\ (RanOk("ref") \/ RanOk("cast")) =>
              /\ env'[last'.name].inst = env[last'.src].inst
              /\ heap' = heap
        /\ RanOk("assign") =>
              \A w \in DOMAIN env :
                  env[w].inst = env[last'.name].inst =>
                      /\ env'[w] = env[w]
                      /\ FieldsOf(env', heap', w)[last'.member] = int(last'.args[1])
        /\ RanOk("call") =>
              \A w \in DOMAIN env :
                  (env[w].inst = env[last'.name].inst /\ env[w].view_cls = env[last'.name].view_cls) =>
                      LET toks == NearestMethod(env[w].view_cls, last'.member) IN
                      \A i \in 1..Len(toks) :
                          toks[i] \in DOMAIN FieldsOf(env, heap, w) =>
                              out'[Len(out')][i] = str[FieldsOf(env, heap, w)[toks[i]]] ]_vars

\* a field assigned through one variable and read through another variable
\* that is bound to the same instance under another view class
C4_Witness ==
    /\ pc = "run" /\ last.kind = "assign"
    /\ \E w \in DOMAIN env :
          /\ w # last.name
          /\ env[w].inst = env[last.name].inst
          /\ env[w].view_cls # env[last.name].view_cls
          /\ FieldsOf(env, heap, w)[last.member] = int(last.args[1])

\* C5: let n = cast<T> s, with s bound and T declared, succeeds exactly when
\* T is the runtime class of s's instance or a class above it; otherwise it
\* raises InvalidCast and the environment is left as it was.
C5_CastIffRuntimeBelowTarget ==
    [][ (Ran("cast") /\ last'.src \in DOMAIN env /\ last'.cls \in Declared(classes)) =>
            LET rt == RuntimeOf(env, heap, last'.src) IN
            /\ pc' = "run" <=> last'.cls \in AncestorsOrSelf(rt)
            /\ last'.cls = rt => pc' = "run"
            /\ pc' = "run" =>
                  env' = (last'.name :> VarBinding(env[last'.src].inst, last'.cls)) @@ env
            /\ pc' # "run" =>
                  /\ pc' = "failed" /\ err' = "InvalidCast"
                  /\ env' = env /\ heap' = heap ]_vars

\* a cast to a class strictly below the runtime class has failed
C5_Witness ==
    /\ pc = "failed" /\ err = "InvalidCast" /\ last.kind = "cast"
    /\ RuntimeOf(env, heap, last.src) \in AncestorsOrSelf(last.cls)
    /\ RuntimeOf(env, heap, last.src) # last.cls

\* C6: for a bound variable v and a declared class C, v is C prints IS exactly
\* when C is the runtime class of v's instance or a class above it, whatever
\* the view class of v is.
C6_IsTestsRuntimeClass ==
    (last.kind = "is" /\ last.name \in DOMAIN env /\ last.cls \in Declared(classes)) =>
        out[Len(out)] =
            IF last.cls \in AncestorsOrSelf(RuntimeOf(env, heap, last.name))
            THEN <<"IS">> ELSE <<"ISN'T">>

\* an instance of B viewed as A has answered IS to is B
C6_Witness ==
    /\ last.kind = "is" /\ last.name \in DOMAIN env /\ last.cls = "B"
    /\ env[last.name].view_cls = "A"
    /\ RuntimeOf(env, heap, last.name) = "B"
    /\ out[Len(out)] = <<"IS">>

\* C7: an is statement raises nothing: it prints one line, ISN'T when the
\* variable is unbound or the class undeclared, changes nothing else and the
\* run goes on; every other statement that names an unbound variable or an
\* undeclared class raises.
C7_IsNeverFails ==
    [][ /\ Ran("is") =>
              /\ pc' = "run" /\ err' = "none"
              /\ env' = env /\ heap' = heap
              /\ Len(out') = Len(out) + 1
              /\ (last'.name \notin DOMAIN env \/ last'.cls \notin Declared(classes)) =>
                    out' = Append(out, <<"ISN'T">>)
        /\ ((Ran("clone") \/ Ran("cast") \/ Ran("ref")) /\ last'.src \notin DOMAIN env) =>
              pc' = "failed" /\ err' # "none"
        /\ ((Ran("assign") \/ Ran("call")) /\ last'.name \notin DOMAIN env) =>
              pc' = "failed" /\ err' # "none"
        /\ ((Ran("new") \/ Ran("cast")) /\ last'.cls \notin Declared(classes)) =>
              pc' = "failed" /\ err' # "none" ]_vars

\* an is statement on an unbound variable has printed ISN'T and the run goes on
C7_Witness ==
    /\ pc = "run" /\ last.kind = "is"
    /\ last.name \notin DOMAIN env
    /\ last.cls \in Declared(classes)
    /\ out[Len(out)] = <<"ISN'T">>

\* C8: let n = new C(args), with C declared and integer literals as args,
\* whose argument count is not the number of fields of C's layout raises
\* ArityMismatch, allocates no instance and leaves the environment, a former
\* binding of n included, as it was.
C8_ArityMismatchChangesNothing ==
    [][ ( /\ Ran("new")
          /\ last'.cls \in Declared(classes)
          /\ \A i \in 1..Len(last'.args) : is_int(last'.args[i])
          /\ Len(last'.args) # Len(RootFirstFields(last'.cls)) ) =>
            /\ pc' = "failed" /\ err' = "ArityMismatch"
            /\ heap' = heap
            /\ env' = env ]_vars

\* a new with a wrong argument count has failed while its target was bound
C8_Witness ==
    /\ pc = "failed" /\ err = "ArityMismatch" /\ last.kind = "new"
    /\ last.name \in DOMAIN env
    /\ Len(last.args) > Len(RootFirstFields(last.cls))

\* C9: for every class C of the resolved table, all_fields(C) is the fields
\* of C's ancestors from the root down, then C's own fields; a new C(args)
\* with literal arguments succeeds exactly when there are as many arguments,
\* and it stores the i-th argument under the i-th name.
C9_AllFieldsRootFirst ==
    (pc \in {"run", "failed"}) =>
        /\ \A c \in Declared(classes) : all_fields(classes, c) = RootFirstFields(c)
        /\ ( /\ last.kind = "new" /\ last.cls \in Declared(classes)
             /\ \A i \in 1..Len(last.args) : is_int(last.args[i]) ) =>
              /\ pc = "run" <=> Len(last.args) = Len(RootFirstFields(last.cls))
              /\ pc = "run" =>
                    LET f == FieldsOf(env, heap, last.name) IN
                    /\ RuntimeOf(env, heap, last.name) = last.cls
                    /\ DOMAIN f = Range(RootFirstFields(last.cls))
                    /\ \A i \in 1..Len(last.args) :
                          f[RootFirstFields(last.cls)[i]] = int(last.args[i])

\* an instance of a class with two field-bearing ancestors has been built
C9_Witness ==
    /\ pc = "run" /\ last.kind = "new" /\ last.cls = "E"
    /\ all_fields(classes, "E") = <<"a", "b", "e">>
    /\ FieldsOf(env, heap, last.name)["a"] = 0
    /\ FieldsOf(env, heap, last.name)["b"] = 1
    /\ FieldsOf(env, heap, last.name)["e"] = 0

\* C10, as stated: after every successful let n = cast<T> s the new view
\* class T is the view class of the source binding or a class above it.
C10_CastNeverBelowSourceView ==
    [][ RanOk("cast") => last'.cls \in AncestorsOrSelf(env[last'.src].view_cls) ]_vars

\* C10, amended: after every successful let n = cast<T> s the new view class
\* T is the RUNTIME class of s's instance or a class above it, never a class
\* below or beside the runtime class; the new binding holds the same instance.
C10_CastNeverBelowRuntime ==
    [][ RanOk("cast") =>
            /\ last'.cls \in AncestorsOrSelf(RuntimeOf(env, heap, last'.src))
            /\ env'[last'.name].view_cls = last'.cls
            /\ env'[last'.name].inst = env[last'.src].inst ]_vars

\* a binding viewed as an ancestor has been cast back to a class below that view
C10_Witness ==
    /\ pc = "run" /\ last.kind = "cast" /\ last.src # last.name
    /\ env[last.src].view_cls # env[last.name].view_cls
    /\ env[last.src].view_cls \in AncestorsOrSelf(env[last.name].view_cls)
    /\ env[last.name].inst = env[last.src].inst

\* C11: when the loader raises (unknown base class, redeclared inherited
\* field, duplicate class name), whichever block of the class section is at
\* fault, no statement has executed and none executes afterwards: there is no
\* binding, no instance, no output line and no report, and no step follows.
C11_LoadErrorRunsNothing ==
    [][ /\ pc # "loadfailed"
        /\ pc' = "loadfailed" =>
              /\ err' \in {"UnknownBaseClass", "DuplicateField", "DuplicateClass",
                           "RecursionError"}
              /\ ip' = 0 /\ last' = NoStmt
              /\ env' = <<>> /\ heap' = <<>> /\ out' = <<>>
              /\ report' = NoReport ]_vars

\* the loader has raised on a block that is not the first of the file
C11_Witness ==
    /\ pc = "loadfailed" /\ err = "DuplicateField"
    /\ Len(classes) = 3
    /\ RedefinesField(classes, 3) /\ ~RedefinesField(classes, 1)

\* C12: statements execute one after the other; the step that raises leaves
\* every binding, every instance and every output line of the statements
\* before it as they were, and no statement executes after it.
C12_StopsAtFirstFatalNoRollback ==
    [][ /\ pc # "failed"
        /\ ip' \in {ip, ip + 1}
        /\ last' # last => ip' = ip + 1
        /\ pc' = "failed" =>
              /\ ip' = ip + 1
              /\ env' = env /\ heap' = heap /\ out' = out ]_vars

\* the third statement raised after the first two bound a variable and
\* produced an output line
C12_Witness ==
    /\ pc = "failed" /\ ip = 3
    /\ env # <<>> /\ heap # <<>> /\ out # <<>>

\* C13: in the report printed at the end of a run, the methods listed for a
\* binding are exactly the names that lookup_method finds starting at the
\* binding's view class: its own methods and those of its ancestors.
C13_ReportListsReachableMethods ==
    pc = "done" =>
        \A v \in DOMAIN report.instances :
            Range(report.instances[v].methods)
                = {m \in MethodNames : lookup_method(classes, env[v].view_cls, m)[1]}

\* C14: v.f = k on a bound v with an integer k succeeds exactly when f is a
\* field of the runtime class of v's instance, whatever the view class of v:
\* it then sets that field to k and touches nothing else; otherwise it fails
\* with UnknownField and no field of any instance changes.
C14_AssignChecksRuntimeFields ==
    [][ (Ran("assign") /\ last'.name \in DOMAIN env /\ is_int(last'.args[1])) =>
            LET i == env[last'.name].inst
                f == last'.member
            IN  IF f \in Range(RootFirstFields(heap[i].cls))
                THEN /\ pc' = "run"
                     /\ heap' = [heap EXCEPT ![i].fields[f] = int(last'.args[1])]
                     /\ env' = env
                ELSE /\ pc' = "failed" /\ err' = "UnknownField"
                     /\ heap' = heap ]_vars

\* through a binding viewed as A, field b of an instance of B was overwritten
C14_Witness ==
    /\ pc = "run" /\ last.kind = "assign" /\ last.member = "b"
    /\ env[last.name].view_cls = "A"
    /\ RuntimeOf(env, heap, last.name) = "B"
    /\ "b" \notin Range(all_fields(classes, "A"))
    /\ last.args = <<"0">>
    /\ FieldsOf(env, heap, last.name)["b"] = 0

\* the class names of the program text
ProgNames == {prog[i].name : i \in 1..Len(prog)}

\* some block names a base that no block of the program declares
NamesUndeclaredBase ==
    \E i \in 1..Len(prog) : prog[i].base_name \notin ProgNames \cup {None}

ProgWithBases(S) ==
    S \cup ({prog[i].base_name : i \in {j \in 1..Len(prog) : prog[j].name \in S}} \ {None})

RECURSIVE ProgBaseClosure(_, _)
ProgBaseClosure(S, n) == IF n = 0 THEN S ELSE ProgBaseClosure(ProgWithBases(S), n - 1)

\* the classes above block i in the program text: its base, the base of its
\* base, ...
ProgAncestors(i) == ProgBaseClosure({prog[i].base_name} \ {None}, Len(prog))

\* no block of the program is among its own ancestors
ProgAcyclic == \A i \in 1..Len(prog) : prog[i].name \notin ProgAncestors(i)

\* some block declares a field that one of its ancestors declares
RedeclaresAncestorField ==
    \E i, j \in 1..Len(prog) :
        /\ prog[j].name \in ProgAncestors(i)
        /\ Range(prog[i].fields) \cap Range(prog[j].fields) # {}

\* C15: when resolution has just run on a program (class names distinct), it
\* has failed with UnknownBaseClass exactly when some class names a base
\* declared nowhere in the program, in whatever order the blocks stand; when
\* every base is declared and the base relation has no cycle, it has failed,
\* with DuplicateField, exactly when some class's own fields meet the fields
\* of one of its direct or indirect ancestors, and the run starts otherwise.
C15_ResolutionOutcome ==
    (pc \in {"loadfailed", "run"} /\ ip = 0 /\ err # "DuplicateClass") =>
        /\ (pc = "loadfailed" /\ err = "UnknownBaseClass") <=> NamesUndeclaredBase
        /\ (~NamesUndeclaredBase /\ ProgAcyclic) =>
              /\ (pc = "loadfailed") <=> RedeclaresAncestorField
              /\ (pc = "loadfailed") => err = "DuplicateField"

\* resolution failed with DuplicateField on a class declared before the
\* ancestor whose field it redeclares, that ancestor not being its base
C15_Witness ==
    /\ pc = "loadfailed" /\ err = "DuplicateField"
    /\ \E i, j \in 1..Len(prog) :
          /\ i < j
          /\ prog[j].name \in ProgAncestors(i)
          /\ prog[j].name # prog[i].base_name
          /\ Range(prog[i].fields) \cap Range(prog[j].fields) # {}

\* the classes strictly above c in the class table
StrictAncestors(c) == BaseClosure({ClassOf(classes, c).base}, Len(classes)) \ {None}

\* C16: in the class table the loader hands to the interpreter, each class
\* has a base that is None or a declared class and no class is its own base
\* or its own ancestor, so every base chain reaches None; the program text
\* then declares no base cycle; and no later step changes the table.
C16_LoadedTableIsAcyclic ==
    [][ /\ (pc = "run" /\ ip = 0) =>
              /\ \A c \in Declared(classes) :
                    /\ ClassOf(classes, c).base \in Declared(classes) \cup {None}
                    /\ c \notin StrictAncestors(c)
                    /\ chain_ends(classes, c, Len(classes))
              /\ ProgAcyclic
        /\ pc' \in {"run", "failed", "done"} => pc \in {"parse", "run"}
        /\ pc = "run" => classes' = classes /\ prog' = prog ]_vars

\* the loader has ended on a program in which a class names itself as base
C16_Witness ==
    /\ pc = "loadfailed" /\ err = "RecursionError"
    /\ \E i \in 1..Len(prog) : prog[i].base_name = prog[i].name

\* the classes among c and its ancestors that declare method m
Declarers(c, m) == {d \in AncestorsOrSelf(c) : HasMethod(ClassOf(classes, d), m)}

\* C17: for every class c of the loaded table and every method name m,
\* lookup_method(c, m) is the token list that the class nearest to c on the
\* chain c, base(c), ... declares for m, and is None only when no class of
\* the chain declares m; a call on a bound variable fails with
\* MethodNotFound exactly when no class of the view class's chain declares m.
C17_LookupNearestDeclaration ==
    [][ /\ (pc = "run" /\ ip = 0) =>
              \A c \in Declared(classes), m \in MethodNames :
                  lookup_method(classes, c, m)
                      = IF Declarers(c, m) = {} THEN <<FALSE, <<>>>>
                        ELSE <<TRUE, NearestMethod(c, m)>>
        /\ (Ran("call") /\ last'.name \in DOMAIN env) =>
              ((pc' = "failed" /\ err' = "MethodNotFound")
                  <=> Declarers(env[last'.name].view_cls, last'.member) = {}) ]_vars

\* m, declared by both B and A, was called through view E, which declares
\* no method: the line printed is B's m (field b), not A's m (field a)
C17_Witness ==
    /\ pc = "run" /\ last.kind = "call" /\ last.member = "m"
    /\ env[last.name].view_cls = "E"
    /\ ~HasMethod(ClassOf(classes, "E"), "m")
    /\ FieldsOf(env, heap, last.name)["a"] = 0
    /\ FieldsOf(env, heap, last.name)["b"] = 1
    /\ out[Len(out)] = <<"1">>

\* C18: after a successful let c = clone s, c is bound to an instance that
\* did not exist before, whose runtime class and field values are those of
\* s's instance just before the statement, and the view class of c is the
\* view class s had, whether or not that is the runtime class.
C18_CloneKeepsClassFieldsAndView ==
    [][ RanOk("clone") =>
            LET old == env[last'.src]
                new == env'[last'.name]
            IN  /\ new.inst \notin DOMAIN heap
                /\ heap'[new.inst].cls = heap[old.inst].cls
                /\ heap'[new.inst].fields = heap[old.inst].fields
                /\ new.view_cls = old.view_cls ]_vars

\* a binding of an instance of B viewed as A was cloned: the clone is viewed
\* as A and its instance is a B
C18_Witness ==
    /\ pc = "run" /\ last.kind = "clone"
    /\ env[last.name].view_cls = "A"
    /\ RuntimeOf(env, heap, last.name) = "B"
    /\ env[last.name].inst \in DOMAIN clonedFrom
    /\ FieldsOf(env, heap, last.name) = heap[clonedFrom[env[last.name].inst]].fields

\* C19: a successful let n = ... (new, clone, cast or bare reference) binds
\* n and nothing else: the bound names are the old ones and n, every other
\* variable keeps its instance and its view class, and every instance that
\* existed keeps its class and its field values; so a variable that shared
\* n's old instance still refers to it, unchanged.
C19_LetRebindsOnlyItsName ==
    [][ (RanOk("new") \/ RanOk("clone") \/ RanOk("cast") \/ RanOk("ref")) =>
            /\ DOMAIN env' = DOMAIN env \cup {last'.name}
            /\ \A w \in DOMAIN env \ {last'.name} : env'[w] = env[w]
            /\ \A i \in DOMAIN heap : heap'[i] = heap[i]
            /\ out' = out ]_vars

\* x was rebound to a clone of its own instance while another variable still
\* refers to the instance x had before
C19_Witness ==
    /\ pc = "run" /\ last.kind = "clone" /\ last.src = last.name
    /\ env[last.name].inst \in DOMAIN clonedFrom
    /\ \E w \in DOMAIN env \ {last.name} :
          /\ env[w].inst = clonedFrom[env[last.name].inst]
          /\ env[w].inst # env[last.name].inst

\* C20: at every step, each instance has exactly the fields of
\* all_fields(its runtime class) as the keys of its field map, and every
\* instance that existed before the step is still there with the same
\* runtime class and the same keys: statements change field values only.
C20_InstanceShapeIsFixed ==
    [][ /\ \A i \in DOMAIN heap' :
              /\ heap'[i].cls \in Declared(classes)
              /\ DOMAIN heap'[i].fields = Range(all_fields(classes, heap'[i].cls))
        /\ \A i \in DOMAIN heap :
              /\ i \in DOMAIN heap'
              /\ heap'[i].cls = heap[i].cls
              /\ DOMAIN heap'[i].fields = DOMAIN heap[i].fields ]_vars

\* a field of an instance of E was assigned a value other than the one it
\* was constructed with; the instance still has the three fields of E
C20_Witness ==
    /\ pc = "run" /\ last.kind = "assign" /\ last.member = "e"
    /\ RuntimeOf(env, heap, last.name) = "E"
    /\ FieldsOf(env, heap, last.name)["e"] = 1
    /\ DOMAIN FieldsOf(env, heap, last.name) = {"a", "b", "e"}

\* the errors each statement form can raise
ErrorsOf ==
    [new    |-> {"InvalidConstructorArg", "UnknownClass", "ArityMismatch"},
     clone  |-> {"UnknownVariable"},
     cast   |-> {"UnknownVariable", "UnknownClass", "InvalidCast"},
     ref    |-> {"UnknownVariable"},
     assign |-> {"InvalidFieldValue", "UnknownVariable", "UnknownField"},
     call   |-> {"UnknownVariable", "MethodNotFound", "UnknownFieldInMethod"}]

\* C21: when a let (new, clone, cast, bare reference), a field assignment
\* or a call raises, the step binds and unbinds no variable, creates no
\* instance, changes no field value and appends nothing to the output, not
\* even the values a call collected before it met an unknown field.
C21_FailingStatementIsAtomic ==
    [][ \A k \in DOMAIN ErrorsOf :
            (Ran(k) /\ pc' = "failed") =>
                /\ err' \in ErrorsOf[k]
                /\ DOMAIN env' = DOMAIN env
                /\ \A w \in DOMAIN env : env'[w] = env[w]
                /\ Len(heap') = Len(heap)
                /\ \A i \in DOMAIN heap : heap'[i].fields = heap[i].fields
                /\ Len(out') = Len(out)
                /\ \A j \in DOMAIN out : out'[j] = out[j] ]_vars

\* a call raised on an unknown field after collecting a literal: the output
\* still ends with the line of the call before it
C21_Witness ==
    /\ pc = "failed" /\ err = "UnknownFieldInMethod" /\ last.kind = "call"
    /\ last.name \in DOMAIN env
    /\ LET found == lookup_method(classes, env[last.name].view_cls, last.member)
       IN  /\ found[1]
           /\ is_int(found[2][1])
           /\ found[2][2] \notin DOMAIN FieldsOf(env, heap, last.name)
    /\ Len(out) = 1
====
